---------------------------- MODULE Spec2Model ----------------------------
(***************************************************************************)
(* A model of the RPC module of the store (src/src/rpc.rs):                *)
(*   - the outbound transport: RpcTransport, Connections, ConnectionPool   *)
(*     and the Connection guard that returns its client on drop;           *)
(*   - the conversions between consensus / leader-election messages and    *)
(*     their RPC requests;                                                 *)
(*   - the inbound RpcService handlers, execute included;                  *)
(*   - the runtime behind server.query and server.recv_msg (decision pump, *)
(*     client notifier, consensus contract), which is not part of rpc.rs   *)
(*     and is written down from the design of the store.                   *)
(*                                                                         *)
(* Option<T> is modelled as a sequence of length at most one:              *)
(*   None == <<>>   and   Some(x) == <<x>>.                                *)
(***************************************************************************)
EXTENDS Integers, Sequences, FiniteSets, TLC

None == <<>>
Some(x) == <<x>>
IsSome(o) == Len(o) = 1
Unwrap(o) == o[1]

(***************************************************************************)
(* Bounds of the model.                                                    *)
(***************************************************************************)
\* number of send_paxos_message / send_ble_message calls of one behaviour
MaxTasks == 3
\* number of Connection guards that may be out of one pool at a time
MaxBorrowed == 18

(***************************************************************************)
(* Program constants.                                                      *)
(***************************************************************************)
\* ArrayQueue::new(16)
PoolCapacity == 16

(***************************************************************************)
(* Outbound transport: addresses, tasks, pools.                            *)
(***************************************************************************)
\* node ids a message may be addressed to
Nodes == {1, 2, 3}

\* the injected node address function; two node ids resolve to one address
node_addr(to) == IF to = 1 THEN "addr_a" ELSE "addr_b"

Tasks == 1..MaxTasks
NoTask == 0

VARIABLES
    conns_lock,     \* holder of the Mutex guarding the address map, or NoTask
    conns,          \* the HashMap<String, Arc<ConnectionPool>>: addr -> queue
    dialed,         \* number of RpcClient::connect calls that succeeded
    pc,             \* position of each spawned send task
    peer,           \* the address the task sends to
    client,         \* Option<Connection> held by the task
    rpc_attempts,   \* RPC calls issued by each task
    delivered,      \* tasks whose RPC reached the peer's handler, in order
    send_returned,  \* what each send call returned to its caller
    saw_panic,      \* at lock acquisition: had a task to the same peer panicked
    sent_to,        \* msg.to of the message each send call was given
    released        \* the drops of Connection guards so far, in order

transport_vars == <<conns_lock, conns, dialed, pc, peer, client,
                    rpc_attempts, delivered, send_returned, saw_panic,
                    sent_to, released>>

VARIABLES
    pool_q,         \* the ArrayQueue of idle clients of the pool
    pool_out,       \* number of Connection guards currently out of the pool
    pool_last       \* the last operation on the pool and its outcome

pool_vars == <<pool_q, pool_out, pool_last>>

VARIABLES
    sent,           \* Option: the message a sender converted into the request
    wire,           \* Option: the request that reached the RpcService
    inbox,          \* what the runtime got through recv_msg / recv_ble_msg
    core_did,       \* what the consensus or election core did with it
    reply,          \* Option: the Result the handler returned
    svc_pc,         \* position of the handler serving the request
    query_calls,    \* the calls of server.query made by execute
    query_result    \* Option: what server.query returned

service_vars == <<sent, wire, inbox, core_did, reply, svc_pc, query_calls,
                  query_result>>

VARIABLES
    leader,         \* the node the election currently names leader
    clog,           \* the log the consensus core has decided
    forwards,       \* ProposalForward messages in flight
    decides,        \* Decide messages in flight
    decided_idx,    \* get_decided_idx() of each node
    last_applied,   \* the last-applied index of each node
    engine,         \* the commands each node's SQL engine has applied, in order
    notifier,       \* ids with a registered client notification, per node
    completions,    \* the ids whose waiting query each node completed, in order
    next_cmd        \* the per-node counter the command ids are minted from

cluster_vars == <<leader, clog, forwards, decides, decided_idx, last_applied,
                  engine, notifier, completions, next_cmd>>

\* what an action of the transport leaves alone
not_transport == <<pool_vars, service_vars, cluster_vars>>

\* what an action on the single pool leaves alone
not_pool == <<transport_vars, service_vars, cluster_vars>>

\* what an action of the service leaves alone
not_service == <<transport_vars, pool_vars, cluster_vars>>

\* what an action of the cluster leaves alone
not_cluster == <<transport_vars, pool_vars, service_vars>>

\* ConnectionPool::new: an empty queue
ConnectionPool_new == <<>>

\* a push that does not stop at the capacity
replenish_unbounded(pool, conn) == Append(pool, conn)

\* ConnectionPool::replenish: push, the Err of a full queue ignored
replenish(pool, conn) ==
    IF Len(pool) < PoolCapacity THEN Append(pool, conn) ELSE pool

\* Drop for Connection: the client goes back to the pool the guard points to
Connection_drop(cs, c) ==
    [cs EXCEPT ![c.pool] = replenish(cs[c.pool], c.conn)]

\* a pop that takes the client pushed last
ArrayQueue_pop_newest(pool) ==
    [x |-> pool[Len(pool)], rest |-> SubSeq(pool, 1, Len(pool) - 1)]

\* self.connections.pop() on a queue that is not empty: the client pushed
\* first, and the queue without it
ArrayQueue_pop(pool) == [x |-> Head(pool), rest |-> Tail(pool)]

\* conns.entry(addr).or_insert_with(ConnectionPool::new)
or_insert_pool(cs, addr) ==
    [a \in (DOMAIN cs) \cup {addr} |->
        IF a \in DOMAIN cs THEN cs[a] ELSE ConnectionPool_new]

TransportInit ==
    /\ conns_lock = NoTask
    /\ conns = [a \in {} |-> ConnectionPool_new]
    /\ dialed = 0
    /\ pc = [t \in Tasks |-> "unspawned"]
    /\ peer = [t \in Tasks |-> "none"]
    /\ client = [t \in Tasks |-> None]
    /\ rpc_attempts = [t \in Tasks |-> 0]
    /\ delivered = <<>>
    /\ send_returned = <<>>
    /\ saw_panic = [t \in Tasks |-> FALSE]
    /\ sent_to = [t \in Tasks |-> 0]
    /\ released = <<>>

\* the body shared by every arm of both send functions: resolve the peer,
\* spawn the task, return () to the caller
spawn_send(t, to) ==
    /\ pc[t] = "unspawned"
    /\ \A u \in Tasks : u < t => pc[u] # "unspawned"
    /\ pc' = [pc EXCEPT ![t] = "lock_wait"]
    /\ peer' = [peer EXCEPT ![t] = node_addr(to)]
    /\ send_returned' = Append(send_returned, "unit")
    /\ UNCHANGED <<conns_lock, conns, dialed, client, rpc_attempts,
                   delivered, saw_panic>>
    /\ sent_to' = [sent_to EXCEPT ![t] = to]
    /\ UNCHANGED released
    /\ UNCHANGED not_transport

send_paxos_message(t, to) == spawn_send(t, to)

send_ble_message(t, to) == spawn_send(t, to)

\* Connections::connection, self.0.lock().await
lock_acquire(t) ==
    /\ pc[t] = "lock_wait"
    /\ conns_lock = NoTask
    /\ conns_lock' = t
    /\ pc' = [pc EXCEPT ![t] = "locked"]
    /\ saw_panic' = [saw_panic EXCEPT ![t] =
           \E u \in Tasks : pc[u] = "panicked" /\ peer[u] = peer[t]]
    /\ UNCHANGED <<conns, dialed, peer, client, rpc_attempts,
                   delivered, send_returned>>
    /\ UNCHANGED <<sent_to, released>>
    /\ UNCHANGED not_transport

\* Connections::connection under the guard: the pool of the address is looked
\* up or inserted, and ConnectionPool::connection pops it.  Some(x): the
\* Connection is built and the guard dropped.  None: the task starts dialing
\* with the guard still held.
pool_lookup(t) ==
    /\ pc[t] = "locked"
    /\ LET cs == or_insert_pool(conns, peer[t])
           pool == cs[peer[t]]
       IN IF Len(pool) > 0
          THEN /\ conns' = [cs EXCEPT ![peer[t]] = ArrayQueue_pop(pool).rest]
               /\ client' = [client EXCEPT ![t] =
                      Some([conn |-> ArrayQueue_pop(pool).x, pool |-> peer[t]])]
               /\ conns_lock' = NoTask
               /\ pc' = [pc EXCEPT ![t] = "calling"]
          ELSE /\ conns' = cs
               /\ client' = client
               /\ conns_lock' = conns_lock
               /\ pc' = [pc EXCEPT ![t] = "dialing"]
    /\ UNCHANGED <<dialed, peer, rpc_attempts, delivered,
                   send_returned, saw_panic>>
    /\ UNCHANGED <<sent_to, released>>
    /\ UNCHANGED not_transport

\* RpcClient::connect(addr).await returned Ok: the Connection is built and the
\* guard dropped at the end of Connections::connection.  The new client is
\* named by the task that dialed it (a task dials at most once).
connect_ok(t) ==
    /\ pc[t] = "dialing"
    /\ dialed' = dialed + 1
    /\ client' = [client EXCEPT ![t] =
           Some([conn |-> [id |-> t, addr |-> peer[t]],
                 pool |-> peer[t]])]
    /\ conns_lock' = NoTask
    /\ pc' = [pc EXCEPT ![t] = "calling"]
    /\ UNCHANGED <<conns, peer, rpc_attempts, delivered,
                   send_returned, saw_panic>>
    /\ UNCHANGED <<sent_to, released>>
    /\ UNCHANGED not_transport

\* a connect failure that leaves the guard with the dead task
connect_err_keeps_guard(t) ==
    /\ pc[t] = "dialing"
    /\ pc' = [pc EXCEPT ![t] = "panicked"]
    /\ UNCHANGED <<conns_lock, conns, dialed, peer, client, rpc_attempts,
                   delivered, send_returned, saw_panic>>
    /\ UNCHANGED <<sent_to, released>>
    /\ UNCHANGED not_transport

\* RpcClient::connect(addr).await returned Err: unwrap panics inside the task;
\* unwinding drops the guard, no Connection exists yet
connect_err(t) ==
    /\ pc[t] = "dialing"
    /\ conns_lock' = NoTask
    /\ pc' = [pc EXCEPT ![t] = "panicked"]
    /\ UNCHANGED <<conns, dialed, peer, client, rpc_attempts,
                   delivered, send_returned, saw_panic>>
    /\ UNCHANGED <<sent_to, released>>
    /\ UNCHANGED not_transport

\* an RPC that is issued only when the earlier sends to the same node ended
rpc_ok_in_send_order(t) ==
    /\ pc[t] = "calling"
    /\ \A u \in Tasks : (u < t /\ sent_to[u] = sent_to[t])
                             => pc[u] \in {"done", "panicked"}
    /\ rpc_attempts' = [rpc_attempts EXCEPT ![t] = @ + 1]
    /\ delivered' = Append(delivered, t)
    /\ conns' = Connection_drop(conns, Unwrap(client[t]))
    /\ client' = [client EXCEPT ![t] = None]
    /\ pc' = [pc EXCEPT ![t] = "done"]
    /\ UNCHANGED <<conns_lock, dialed, peer, send_returned, saw_panic>>
    /\ released' = Append(released,
           [task |-> t, conn |-> Unwrap(client[t]).conn,
            pool |-> Unwrap(client[t]).pool])
    /\ UNCHANGED sent_to
    /\ UNCHANGED not_transport

\* the RPC returned Ok: the task ends and its Connection is dropped
rpc_ok(t) ==
    /\ pc[t] = "calling"
    /\ rpc_attempts' = [rpc_attempts EXCEPT ![t] = @ + 1]
    /\ delivered' = Append(delivered, t)
    /\ conns' = Connection_drop(conns, Unwrap(client[t]))
    /\ client' = [client EXCEPT ![t] = None]
    /\ pc' = [pc EXCEPT ![t] = "done"]
    /\ UNCHANGED <<conns_lock, dialed, peer, send_returned, saw_panic>>
    /\ released' = Append(released,
           [task |-> t, conn |-> Unwrap(client[t]).conn,
            pool |-> Unwrap(client[t]).pool])
    /\ UNCHANGED sent_to
    /\ UNCHANGED not_transport

\* an RPC failure after which the task issues the call again
rpc_err_retry(t) ==
    /\ pc[t] = "calling"
    /\ rpc_attempts' = [rpc_attempts EXCEPT ![t] = @ + 1]
    /\ UNCHANGED <<conns_lock, conns, dialed, pc, peer, client, delivered,
                   send_returned, saw_panic>>
    /\ UNCHANGED <<sent_to, released>>
    /\ UNCHANGED not_transport

\* an RPC failure that ends the task without running the drop of its
\* Connection
rpc_err_without_drop(t) ==
    /\ pc[t] = "calling"
    /\ rpc_attempts' = [rpc_attempts EXCEPT ![t] = @ + 1]
    /\ client' = [client EXCEPT ![t] = None]
    /\ pc' = [pc EXCEPT ![t] = "panicked"]
    /\ UNCHANGED <<conns_lock, conns, dialed, peer, delivered, send_returned,
                   saw_panic, sent_to, released>>
    /\ UNCHANGED not_transport

\* the RPC returned Err: unwrap panics inside the task; unwinding drops the
\* Connection, which goes back to its pool
rpc_err(t) ==
    /\ pc[t] = "calling"
    /\ rpc_attempts' = [rpc_attempts EXCEPT ![t] = @ + 1]
    /\ conns' = Connection_drop(conns, Unwrap(client[t]))
    /\ client' = [client EXCEPT ![t] = None]
    /\ pc' = [pc EXCEPT ![t] = "panicked"]
    /\ UNCHANGED <<conns_lock, dialed, peer, delivered, send_returned,
                   saw_panic>>
    /\ released' = Append(released,
           [task |-> t, conn |-> Unwrap(client[t]).conn,
            pool |-> Unwrap(client[t]).pool])
    /\ UNCHANGED sent_to
    /\ UNCHANGED not_transport

TransportNext ==
    \/ \E t \in Tasks, to \in Nodes : send_paxos_message(t, to)
    \/ \E t \in Tasks, to \in Nodes : send_ble_message(t, to)
    \/ \E t \in Tasks : lock_acquire(t)
    \/ \E t \in Tasks : pool_lookup(t)
    \/ \E t \in Tasks : connect_ok(t)
    \/ \E t \in Tasks : connect_err(t)
    \/ \E t \in Tasks : rpc_ok(t)
    \/ \E t \in Tasks : rpc_err(t)

(***************************************************************************)
(* One ConnectionPool under any interleaving of borrows and returns by     *)
(* anonymous holders, at the capacity the code sets.                       *)
(***************************************************************************)

PoolInit ==
    /\ pool_q = ConnectionPool_new
    /\ pool_out = 0
    /\ pool_last = "new"

\* ConnectionPool::connection, pop() gave Some(x)
pool_pop ==
    /\ pool_out < MaxBorrowed
    /\ Len(pool_q) > 0
    /\ pool_q' = Tail(pool_q)
    /\ pool_out' = pool_out + 1
    /\ pool_last' = "popped"
    /\ UNCHANGED not_pool

\* a borrow that waits for a return once the capacity is out
pool_dial_within_capacity ==
    /\ pool_out < PoolCapacity
    /\ Len(pool_q) = 0
    /\ pool_q' = pool_q
    /\ pool_out' = pool_out + 1
    /\ pool_last' = "dialed"
    /\ UNCHANGED not_pool

\* ConnectionPool::connection, pop() gave None and connect returned Ok
pool_dial ==
    /\ pool_out < MaxBorrowed
    /\ Len(pool_q) = 0
    /\ pool_q' = pool_q
    /\ pool_out' = pool_out + 1
    /\ pool_last' = "dialed"
    /\ UNCHANGED not_pool

\* Drop for Connection: replenish pushes the client, or discards it when the
\* queue is full
pool_return ==
    /\ pool_out > 0
    /\ pool_q' = replenish(pool_q, "client")
    /\ pool_out' = pool_out - 1
    /\ pool_last' = IF Len(pool_q') > Len(pool_q) THEN "pushed" ELSE "discarded"
    /\ UNCHANGED not_pool

PoolNext ==
    \/ pool_pop
    \/ pool_dial
    \/ pool_return

(***************************************************************************)
(* Protocol messages and their RPC requests.                               *)
(*                                                                         *)
(* A message is [from, to, msg], msg a record tagged by its variant.  A    *)
(* request is [rpc, body]: the RpcService method called and the Proto      *)
(* struct sent.  Optional message fields of the Proto structs are Options. *)
(***************************************************************************)
\* largest ballot number n of the sampled ballots
MaxBallotN == 1
\* longest entry list of a sampled message
MaxEntries == 2
\* longest stop-sign metadata of a sampled message
MaxMeta == 2

SeqsUpTo(S, k) == UNION {[1..n -> S] : n \in 0..k}

Message(from, to, msg) == [from |-> from, to |-> to, msg |-> msg]

\* (from, to) of the sampled messages
Endpoints == {<<1, 2>>, <<2, 1>>}

\* ble::Ballot { n: u32, priority: u64, pid: u64 }
Ballots == [n : 0..MaxBallotN, priority : 0..1, pid : 1..2]
BallotSamples == {[n |-> 1, priority |-> 0, pid |-> 2],
                  [n |-> 0, priority |-> 1, pid |-> 1]}

\* log indices (ld, la, sync_idx, decide_idx, round)
Indices == {0, 1}
IndexPairs == {<<0, 1>>, <<1, 0>>}

\* StoreCommand { id: usize, sql: String }
Commands == {[id |-> 1, sql |-> "INSERT INTO t VALUES(1)"],
             [id |-> 2, sql |-> "SELECT k FROM t"]}
EntryLists == SeqsUpTo(Commands, MaxEntries)

\* util::SyncItem<StoreCommand, ()>
SyncItems ==
    {[tag |-> "Entries", entries |-> es] : es \in EntryLists}
    \cup {[tag |-> "Snapshot", snapshot |-> "Complete"]}
    \cup {[tag |-> "None"]}

\* storage::StopSign { config_id: u32, nodes: Vec<u64>, metadata: Option<Vec<u8>> }
MetaBytes == {0, 7, 255}
StopSigns ==
    [config_id : {1}, nodes : {<<1, 2, 3>>},
     metadata : {None} \cup {Some(md) : md \in SeqsUpTo(MetaBytes, MaxMeta)}]

OptionOf(S) == {None} \cup {Some(x) : x \in S}

\* messages::Compaction
Compactions ==
    {[tag |-> "Trim", trim |-> v] : v \in OptionOf(Indices)}
    \cup {[tag |-> "Snapshot", idx |-> i] : i \in Indices}

\* messages::PaxosMsg<StoreCommand, ()>
PaxosMsgs ==
    {[type |-> "PrepareReq"]}
    \cup [type : {"Prepare"}, n : Ballots, ld : Indices,
          n_accepted : Ballots, la : Indices]
    \cup {[type |-> "Promise", n |-> n, n_accepted |-> na, sync_item |-> si,
           ld |-> ix[1], la |-> ix[2], stopsign |-> ss] :
            n \in BallotSamples, na \in BallotSamples,
            si \in OptionOf(SyncItems), ix \in IndexPairs,
            ss \in OptionOf(StopSigns)}
    \cup {[type |-> "AcceptSync", n |-> n, sync_item |-> si,
           sync_idx |-> ix[1], decide_idx |-> ix[2], stopsign |-> ss] :
            n \in BallotSamples, si \in SyncItems, ix \in IndexPairs,
            ss \in OptionOf(StopSigns)}
    \cup [type : {"FirstAccept"}, n : BallotSamples, entries : EntryLists]
    \cup [type : {"AcceptDecide"}, n : BallotSamples, ld : Indices,
          entries : EntryLists]
    \cup [type : {"Accepted"}, n : BallotSamples, la : Indices]
    \cup [type : {"Decide"}, n : BallotSamples, ld : Indices]
    \cup [type : {"ProposalForward"}, proposals : EntryLists]
    \cup [type : {"Compaction"}, compaction : Compactions]
    \cup [type : {"ForwardCompaction"}, compaction : Compactions]
    \cup [type : {"AcceptStopSign"}, n : BallotSamples, ss : StopSigns]
    \cup [type : {"AcceptedStopSign"}, n : BallotSamples]
    \cup [type : {"DecideStopSign"}, n : BallotSamples]

PaxosMessages ==
    {Message(e[1], e[2], m) : e \in Endpoints, m \in PaxosMsgs}

\* ble::messages::HeartbeatMsg
HeartbeatMsgs ==
    [type : {"HeartbeatRequest"}, round : Indices]
    \cup [type : {"HeartbeatReply"}, round : Indices, ballot : BallotSamples,
          majority_connected : BOOLEAN]

BLEMessages ==
    {Message(e[1], e[2], m) : e \in Endpoints, m \in HeartbeatMsgs}

(***************************************************************************)
(* Message -> Proto conversions of the sending side.                       *)
(***************************************************************************)
\* usize -> u64 and back: a usize id fits a u64, so the value is kept both ways
as_u64(id) == id
as_usize(id) == id

\* u8 -> u32: zero extension keeps the value
as_u32(m) == m

\* a ballot whose priority and pid change places
get_proto_ballot_swapped(ballot) ==
    [n |-> ballot.n, priority |-> ballot.pid, pid |-> ballot.priority]

get_proto_ballot(ballot) ==
    [n |-> ballot.n, priority |-> ballot.priority, pid |-> ballot.pid]

get_proto_entry(cmd) == [id |-> as_u64(cmd.id), sql |-> cmd.sql]

get_proto_entries(entries) ==
    [i \in 1..Len(entries) |-> get_proto_entry(entries[i])]

get_proto_sync_item(syncitem) ==
    CASE syncitem.tag = "Entries" ->
            [syncitem |-> Some([tag |-> "Entries",
                 entries |-> [entries |-> get_proto_entries(syncitem.entries)]])]
      [] syncitem.tag = "Snapshot" ->
            [syncitem |-> Some([tag |-> "Snapshot", value |-> TRUE])]
      [] syncitem.tag = "None" ->
            [syncitem |-> Some([tag |-> "None", value |-> TRUE])]

get_proto_stop_sign(stopsign) ==
    [config_id |-> stopsign.config_id,
     nodes |-> stopsign.nodes,
     metadata |-> IF IsSome(stopsign.metadata)
                  THEN [i \in 1..Len(Unwrap(stopsign.metadata)) |->
                           as_u32(Unwrap(stopsign.metadata)[i])]
                  ELSE <<>>]

get_proto_compaction(compaction) ==
    CASE compaction.tag = "Trim" ->
            [tag |-> "Trim", trim |-> [trim |-> compaction.trim]]
      [] compaction.tag = "Snapshot" ->
            [tag |-> "Snapshot", value |-> compaction.idx]

get_proto_forward_compaction(compaction) ==
    CASE compaction.tag = "Trim" ->
            [tag |-> "Trim", trim |-> [trim |-> compaction.trim]]
      [] compaction.tag = "Snapshot" ->
            [tag |-> "Snapshot", value |-> compaction.idx]

\* match on an Option: Some(x) => Some(f(x)), _ => None
proto_sync_item_opt(o) ==
    IF IsSome(o) THEN Some(get_proto_sync_item(Unwrap(o))) ELSE None

proto_stop_sign_opt(o) ==
    IF IsSome(o) THEN Some(get_proto_stop_sign(Unwrap(o))) ELSE None

Request(rpc, body) == [rpc |-> rpc, body |-> body]

\* send_paxos_message: the request each arm builds and the RPC it calls
paxos_request(msg) ==
    LET from == msg.from
        to == msg.to
        m == msg.msg
    IN CASE m.type = "PrepareReq" ->
            Request("prepare_request", [from |-> from, to |-> to])
         [] m.type = "Prepare" ->
            Request("prepare_message",
                [from |-> from, to |-> to,
                 n |-> Some(get_proto_ballot(m.n)), ld |-> m.ld,
                 n_accepted |-> Some(get_proto_ballot(m.n_accepted)),
                 la |-> m.la])
         [] m.type = "Promise" ->
            Request("promise_message",
                [from |-> from, to |-> to,
                 n |-> Some(get_proto_ballot(m.n)),
                 n_accepted |-> Some(get_proto_ballot(m.n_accepted)),
                 sync_item |-> proto_sync_item_opt(m.sync_item),
                 ld |-> m.ld, la |-> m.la,
                 stopsign |-> proto_stop_sign_opt(m.stopsign)])
         [] m.type = "AcceptSync" ->
            Request("accept_sync_message",
                [from |-> from, to |-> to,
                 n |-> Some(get_proto_ballot(m.n)),
                 sync_item |-> Some(get_proto_sync_item(m.sync_item)),
                 sync_idx |-> m.sync_idx, decided_idx |-> m.decide_idx,
                 stopsign |-> proto_stop_sign_opt(m.stopsign)])
         [] m.type = "FirstAccept" ->
            Request("first_accept_message",
                [from |-> from, to |-> to,
                 n |-> Some(get_proto_ballot(m.n)),
                 entries |-> get_proto_entries(m.entries)])
         [] m.type = "AcceptDecide" ->
            Request("accept_decide_message",
                [from |-> from, to |-> to,
                 n |-> Some(get_proto_ballot(m.n)), ld |-> m.ld,
                 entries |-> get_proto_entries(m.entries)])
         [] m.type = "Accepted" ->
            Request("accepted_message",
                [from |-> from, to |-> to,
                 n |-> Some(get_proto_ballot(m.n)), la |-> m.la])
         [] m.type = "Decide" ->
            Request("decide_message",
                [from |-> from, to |-> to,
                 n |-> Some(get_proto_ballot(m.n)), ld |-> m.ld])
         [] m.type = "ProposalForward" ->
            Request("proposal_forward_message",
                [from |-> from, to |-> to,
                 proposals |-> get_proto_entries(m.proposals)])
         [] m.type = "Compaction" ->
            Request("compaction_message",
                [from |-> from, to |-> to,
                 compaction |-> Some(get_proto_compaction(m.compaction))])
         [] m.type = "ForwardCompaction" ->
            Request("forward_compaction_message",
                [from |-> from, to |-> to,
                 compaction |->
                     Some(get_proto_forward_compaction(m.compaction))])
         [] m.type = "AcceptStopSign" ->
            Request("accept_stop_sign_message",
                [from |-> from, to |-> to,
                 n |-> Some(get_proto_ballot(m.n)),
                 stopsign |-> Some(get_proto_stop_sign(m.ss))])
         [] m.type = "AcceptedStopSign" ->
            Request("accepted_stop_sign_message",
                [from |-> from, to |-> to,
                 n |-> Some(get_proto_ballot(m.n))])
         [] m.type = "DecideStopSign" ->
            Request("decide_stop_sign_message",
                [from |-> from, to |-> to,
                 n |-> Some(get_proto_ballot(m.n))])

\* send_ble_message: the request each arm builds and the RPC it calls
ble_request(ble_msg) ==
    LET from == ble_msg.from
        to == ble_msg.to
        m == ble_msg.msg
    IN CASE m.type = "HeartbeatRequest" ->
            Request("heartbeat_request_message",
                [from |-> from, to |-> to, round |-> m.round])
         [] m.type = "HeartbeatReply" ->
            Request("heartbeat_reply_message",
                [from |-> from, to |-> to, round |-> m.round,
                 ballot |-> Some(get_proto_ballot(m.ballot)),
                 majority_connected |-> m.majority_connected])

(***************************************************************************)
(* Proto -> message conversions of the RpcService.  Option::unwrap on None *)
(* panics: a conversion gives Panic, or Done(v) with the value it built.   *)
(***************************************************************************)
Panic == [panic |-> TRUE]
Done(v) == [panic |-> FALSE, value |-> v]

get_ballot_from_proto(proto_ballot) ==
    [n |-> proto_ballot.n, priority |-> proto_ballot.priority,
     pid |-> proto_ballot.pid]

get_entry_from_proto(proto_entry) ==
    [id |-> as_usize(proto_entry.id), sql |-> proto_entry.sql]

get_entries_from_proto(entries) ==
    [i \in 1..Len(entries) |-> get_entry_from_proto(entries[i])]

get_syncitem_from_proto(syncitem) ==
    IF ~IsSome(syncitem.syncitem) THEN Panic
    ELSE LET s == Unwrap(syncitem.syncitem)
         IN CASE s.tag = "Entries" ->
                    Done([tag |-> "Entries",
                          entries |-> get_entries_from_proto(s.entries.entries)])
              [] s.tag = "Snapshot" ->
                    Done([tag |-> "Snapshot", snapshot |-> "Complete"])
              [] s.tag = "None" -> Done([tag |-> "None"])

\* a narrowing that clamps instead of wrapping
as_u8_saturating(m) == IF m > 255 THEN 255 ELSE m

\* u32 -> u8: the low 8 bits
as_u8(m) == m % 256

get_stopsign_from_proto(stopsign) ==
    [config_id |-> stopsign.config_id,
     nodes |-> stopsign.nodes,
     metadata |-> Some([i \in 1..Len(stopsign.metadata) |->
                           as_u8(stopsign.metadata[i])])]

get_compaction_from_proto(compaction) ==
    CASE compaction.tag = "Trim" ->
            [tag |-> "Trim", trim |-> compaction.trim.trim]
      [] compaction.tag = "Snapshot" ->
            [tag |-> "Snapshot", idx |-> compaction.value]

get_forward_compaction_from_proto(compaction) ==
    CASE compaction.tag = "Trim" ->
            [tag |-> "Trim", trim |-> compaction.trim.trim]
      [] compaction.tag = "Snapshot" ->
            [tag |-> "Snapshot", idx |-> compaction.value]

\* match on an Option: Some(x) => Some(f(x)), _ => None
stopsign_opt_from_proto(o) ==
    IF IsSome(o) THEN Some(get_stopsign_from_proto(Unwrap(o))) ELSE None

(***************************************************************************)
(* The message each protocol handler builds from its request, up to the    *)
(* call of recv_msg / recv_ble_msg; the unwraps in the order of the code.  *)
(***************************************************************************)
prepare_request_msg(r) ==
    Done(Message(r.from, r.to, [type |-> "PrepareReq"]))

prepare_message_msg(r) ==
    IF ~IsSome(r.n) THEN Panic
    ELSE IF ~IsSome(r.n_accepted) THEN Panic
    ELSE Done(Message(r.from, r.to,
            [type |-> "Prepare", n |-> get_ballot_from_proto(Unwrap(r.n)),
             ld |-> r.ld,
             n_accepted |-> get_ballot_from_proto(Unwrap(r.n_accepted)),
             la |-> r.la]))

promise_message_msg(r) ==
    IF ~IsSome(r.n) THEN Panic
    ELSE IF ~IsSome(r.n_accepted) THEN Panic
    ELSE LET si == IF IsSome(r.sync_item)
                   THEN get_syncitem_from_proto(Unwrap(r.sync_item))
                   ELSE Done(None)
         IN IF si.panic THEN Panic
            ELSE Done(Message(r.from, r.to,
                    [type |-> "Promise",
                     n |-> get_ballot_from_proto(Unwrap(r.n)),
                     n_accepted |-> get_ballot_from_proto(Unwrap(r.n_accepted)),
                     sync_item |-> IF IsSome(r.sync_item)
                                   THEN Some(si.value) ELSE None,
                     ld |-> r.ld, la |-> r.la,
                     stopsign |-> stopsign_opt_from_proto(r.stopsign)]))

accept_sync_message_msg(r) ==
    IF ~IsSome(r.n) THEN Panic
    ELSE IF ~IsSome(r.sync_item) THEN Panic
    ELSE LET si == get_syncitem_from_proto(Unwrap(r.sync_item))
         IN IF si.panic THEN Panic
            ELSE Done(Message(r.from, r.to,
                    [type |-> "AcceptSync",
                     n |-> get_ballot_from_proto(Unwrap(r.n)),
                     sync_item |-> si.value,
                     sync_idx |-> r.sync_idx, decide_idx |-> r.decided_idx,
                     stopsign |-> stopsign_opt_from_proto(r.stopsign)]))

first_accept_message_msg(r) ==
    IF ~IsSome(r.n) THEN Panic
    ELSE Done(Message(r.from, r.to,
            [type |-> "FirstAccept",
             n |-> get_ballot_from_proto(Unwrap(r.n)),
             entries |-> get_entries_from_proto(r.entries)]))

accept_decide_message_msg(r) ==
    IF ~IsSome(r.n) THEN Panic
    ELSE Done(Message(r.from, r.to,
            [type |-> "AcceptDecide",
             n |-> get_ballot_from_proto(Unwrap(r.n)), ld |-> r.ld,
             entries |-> get_entries_from_proto(r.entries)]))

accepted_message_msg(r) ==
    IF ~IsSome(r.n) THEN Panic
    ELSE Done(Message(r.from, r.to,
            [type |-> "Accepted",
             n |-> get_ballot_from_proto(Unwrap(r.n)), la |-> r.la]))

decide_message_msg(r) ==
    IF ~IsSome(r.n) THEN Panic
    ELSE Done(Message(r.from, r.to,
            [type |-> "Decide",
             n |-> get_ballot_from_proto(Unwrap(r.n)), ld |-> r.ld]))

proposal_forward_message_msg(r) ==
    Done(Message(r.from, r.to,
            [type |-> "ProposalForward",
             proposals |-> get_entries_from_proto(r.proposals)]))

compaction_message_msg(r) ==
    IF ~IsSome(r.compaction) THEN Panic
    ELSE Done(Message(r.from, r.to,
            [type |-> "Compaction",
             compaction |-> get_compaction_from_proto(Unwrap(r.compaction))]))

forward_compaction_message_msg(r) ==
    IF ~IsSome(r.compaction) THEN Panic
    ELSE Done(Message(r.from, r.to,
            [type |-> "ForwardCompaction",
             compaction |->
                 get_forward_compaction_from_proto(Unwrap(r.compaction))]))

accept_stop_sign_message_msg(r) ==
    IF ~IsSome(r.n) THEN Panic
    ELSE IF ~IsSome(r.stopsign) THEN Panic
    ELSE Done(Message(r.from, r.to,
            [type |-> "AcceptStopSign",
             n |-> get_ballot_from_proto(Unwrap(r.n)),
             ss |-> get_stopsign_from_proto(Unwrap(r.stopsign))]))

accepted_stop_sign_message_msg(r) ==
    IF ~IsSome(r.n) THEN Panic
    ELSE Done(Message(r.from, r.to,
            [type |-> "AcceptedStopSign",
             n |-> get_ballot_from_proto(Unwrap(r.n))]))

decide_stop_sign_message_msg(r) ==
    IF ~IsSome(r.n) THEN Panic
    ELSE Done(Message(r.from, r.to,
            [type |-> "DecideStopSign",
             n |-> get_ballot_from_proto(Unwrap(r.n))]))

heartbeat_request_message_msg(r) ==
    Done(Message(r.from, r.to,
            [type |-> "HeartbeatRequest", round |-> r.round]))

heartbeat_reply_message_msg(r) ==
    IF ~IsSome(r.ballot) THEN Panic
    ELSE Done(Message(r.from, r.to,
            [type |-> "HeartbeatReply", round |-> r.round,
             ballot |-> get_ballot_from_proto(Unwrap(r.ballot)),
             majority_connected |-> r.majority_connected]))

(***************************************************************************)
(* Requests a peer or any other RPC client may put on the wire: optional   *)
(* fields present or absent, metadata elements of the full u32 range.      *)
(***************************************************************************)
ProtoBallots == [n : {1}, priority : {0}, pid : {1, 2}]
ProtoBallotOpts == OptionOf(ProtoBallots)

ProtoEntries == {[id |-> 1, sql |-> "INSERT INTO t VALUES(1)"],
                 [id |-> 2, sql |-> "SELECT k FROM t"]}
ProtoEntryLists == SeqsUpTo(ProtoEntries, MaxEntries)

ProtoSyncItems ==
    {[syncitem |-> None]}
    \cup {[syncitem |-> Some([tag |-> "Entries", entries |-> [entries |-> es]])] :
            es \in ProtoEntryLists}
    \cup {[syncitem |-> Some([tag |-> t, value |-> b])] :
            t \in {"Snapshot", "None"}, b \in BOOLEAN}

WireMetaValues == {0, 255, 256, 777}
ProtoStopSigns ==
    [config_id : {1}, nodes : {<<1, 2, 3>>},
     metadata : SeqsUpTo(WireMetaValues, MaxMeta)]

ProtoCompactions ==
    {[tag |-> "Trim", trim |-> [trim |-> v]] : v \in OptionOf(Indices)}
    \cup {[tag |-> "Snapshot", value |-> i] : i \in Indices}

\* from and to of the requests put on the wire
WireFrom == {1, 2}
WireTo == {2}

\* the request bodies of each RpcService method
WireBodies(rpc) ==
    CASE rpc = "prepare_request" -> [from : WireFrom, to : WireTo]
      [] rpc = "prepare_message" ->
            {[from |-> f, to |-> t, n |-> n, ld |-> ix[1], n_accepted |-> na, la |-> ix[2]] :
                n \in ProtoBallotOpts, na \in ProtoBallotOpts,
                ix \in IndexPairs, f \in WireFrom, t \in WireTo}
      [] rpc = "promise_message" ->
            {[from |-> f, to |-> t, n |-> n, n_accepted |-> na, sync_item |-> si, ld |-> ix[1],
              la |-> ix[2], stopsign |-> ss] :
                n \in ProtoBallotOpts, na \in ProtoBallotOpts,
                si \in OptionOf(ProtoSyncItems), ix \in IndexPairs,
                ss \in OptionOf(ProtoStopSigns), f \in WireFrom, t \in WireTo}
      [] rpc = "accept_sync_message" ->
            {[from |-> f, to |-> t, n |-> n, sync_item |-> si, sync_idx |-> ix[1],
              decided_idx |-> ix[2], stopsign |-> ss] :
                n \in ProtoBallotOpts, si \in OptionOf(ProtoSyncItems),
                ix \in IndexPairs, ss \in OptionOf(ProtoStopSigns),
                f \in WireFrom, t \in WireTo}
      [] rpc = "first_accept_message" ->
            [from : WireFrom, to : WireTo, n : ProtoBallotOpts, entries : ProtoEntryLists]
      [] rpc = "accept_decide_message" ->
            [from : WireFrom, to : WireTo, n : ProtoBallotOpts, ld : Indices, entries : ProtoEntryLists]
      [] rpc = "accepted_message" -> [from : WireFrom, to : WireTo, n : ProtoBallotOpts, la : Indices]
      [] rpc = "decide_message" -> [from : WireFrom, to : WireTo, n : ProtoBallotOpts, ld : Indices]
      [] rpc = "proposal_forward_message" -> [from : WireFrom, to : WireTo, proposals : ProtoEntryLists]
      [] rpc = "compaction_message" ->
            [from : WireFrom, to : WireTo, compaction : OptionOf(ProtoCompactions)]
      [] rpc = "forward_compaction_message" ->
            [from : WireFrom, to : WireTo, compaction : OptionOf(ProtoCompactions)]
      [] rpc = "accept_stop_sign_message" ->
            [from : WireFrom, to : WireTo, n : ProtoBallotOpts, stopsign : OptionOf(ProtoStopSigns)]
      [] rpc = "accepted_stop_sign_message" -> [from : WireFrom, to : WireTo, n : ProtoBallotOpts]
      [] rpc = "decide_stop_sign_message" -> [from : WireFrom, to : WireTo, n : ProtoBallotOpts]
      [] rpc = "heartbeat_request_message" -> [from : WireFrom, to : WireTo, round : Indices]
      [] rpc = "heartbeat_reply_message" ->
            [from : WireFrom, to : WireTo, round : Indices, ballot : ProtoBallotOpts,
             majority_connected : BOOLEAN]

(***************************************************************************)
(* The RpcService: one request is served per behaviour.                    *)
(***************************************************************************)
PaxosRpcs == {"prepare_request", "prepare_message", "promise_message",
              "accept_sync_message", "first_accept_message",
              "accept_decide_message", "accepted_message", "decide_message",
              "proposal_forward_message", "compaction_message",
              "forward_compaction_message", "accept_stop_sign_message",
              "accepted_stop_sign_message", "decide_stop_sign_message"}
BleRpcs == {"heartbeat_request_message", "heartbeat_reply_message"}
ProtocolRpcs == PaxosRpcs \cup BleRpcs

\* what the core may do with a message it is handed
CoreOutcomes == {"handled", "ignored"}

\* Ok(Response::new(ProtoVoid {}))
OkVoid == [status |-> "Ok", body |-> "ProtoVoid"]

ServiceInit ==
    /\ sent = None
    /\ wire = None
    /\ inbox = <<>>
    /\ core_did = "nothing"
    /\ reply = None
    /\ svc_pc = "idle"
    /\ query_calls = <<>>
    /\ query_result = None

\* send_paxos_message converted msg and the RPC of its task reached the peer
paxos_rpc_arrives ==
    /\ svc_pc = "idle"
    /\ \E msg \in PaxosMessages :
            /\ sent' = Some(msg)
            /\ wire' = Some(paxos_request(msg))
    /\ svc_pc' = "inflight"
    /\ UNCHANGED <<inbox, core_did, reply, query_calls, query_result>>
    /\ UNCHANGED not_service

\* send_ble_message converted ble_msg and the RPC of its task reached the peer
ble_rpc_arrives ==
    /\ svc_pc = "idle"
    /\ \E ble_msg \in BLEMessages :
            /\ sent' = Some(ble_msg)
            /\ wire' = Some(ble_request(ble_msg))
    /\ svc_pc' = "inflight"
    /\ UNCHANGED <<inbox, core_did, reply, query_calls, query_result>>
    /\ UNCHANGED not_service

\* some RPC client called a protocol method with a request of its own making
foreign_rpc_arrives ==
    /\ svc_pc = "idle"
    /\ sent' = None
    /\ \E rpc \in ProtocolRpcs : \E body \in WireBodies(rpc) :
            wire' = Some(Request(rpc, body))
    /\ svc_pc' = "inflight"
    /\ UNCHANGED <<inbox, core_did, reply, query_calls, query_result>>
    /\ UNCHANGED not_service

Incoming(rpc) == svc_pc = "inflight" /\ Unwrap(wire).rpc = rpc

\* a handler that turns what the core did into the RPC status
serve_reports_core(d, via) ==
    IF d.panic
    THEN /\ svc_pc' = "panicked"
         /\ UNCHANGED <<inbox, core_did, reply>>
    ELSE /\ \E c \in CoreOutcomes :
                /\ core_did' = c
                /\ reply' = IF c = "handled" THEN Some(OkVoid)
                            ELSE Some([status |-> "Internal",
                                       message |-> "ignored"])
         /\ inbox' = Append(inbox, [via |-> via, msg |-> d.value])
         /\ svc_pc' = "replied"

\* the tail of every protocol handler: a panic of an unwrap ends the handler
\* with nothing returned; otherwise the message goes to the runtime, whose
\* call returns nothing, and the handler returns the empty acknowledgement
serve(d, via) ==
    IF d.panic
    THEN /\ svc_pc' = "panicked"
         /\ UNCHANGED <<inbox, core_did, reply>>
    ELSE /\ \E c \in CoreOutcomes : core_did' = c
         /\ inbox' = Append(inbox, [via |-> via, msg |-> d.value])
         /\ reply' = Some(OkVoid)
         /\ svc_pc' = "replied"

prepare_request ==
    /\ Incoming("prepare_request")
    /\ serve(prepare_request_msg(Unwrap(wire).body), "recv_msg")
    /\ UNCHANGED <<sent, wire, query_calls, query_result>>
    /\ UNCHANGED not_service

prepare_message ==
    /\ Incoming("prepare_message")
    /\ serve(prepare_message_msg(Unwrap(wire).body), "recv_msg")
    /\ UNCHANGED <<sent, wire, query_calls, query_result>>
    /\ UNCHANGED not_service

promise_message ==
    /\ Incoming("promise_message")
    /\ serve(promise_message_msg(Unwrap(wire).body), "recv_msg")
    /\ UNCHANGED <<sent, wire, query_calls, query_result>>
    /\ UNCHANGED not_service

accept_sync_message ==
    /\ Incoming("accept_sync_message")
    /\ serve(accept_sync_message_msg(Unwrap(wire).body), "recv_msg")
    /\ UNCHANGED <<sent, wire, query_calls, query_result>>
    /\ UNCHANGED not_service

first_accept_message ==
    /\ Incoming("first_accept_message")
    /\ serve(first_accept_message_msg(Unwrap(wire).body), "recv_msg")
    /\ UNCHANGED <<sent, wire, query_calls, query_result>>
    /\ UNCHANGED not_service

accept_decide_message ==
    /\ Incoming("accept_decide_message")
    /\ serve(accept_decide_message_msg(Unwrap(wire).body), "recv_msg")
    /\ UNCHANGED <<sent, wire, query_calls, query_result>>
    /\ UNCHANGED not_service

accepted_message ==
    /\ Incoming("accepted_message")
    /\ serve(accepted_message_msg(Unwrap(wire).body), "recv_msg")
    /\ UNCHANGED <<sent, wire, query_calls, query_result>>
    /\ UNCHANGED not_service

decide_message ==
    /\ Incoming("decide_message")
    /\ serve(decide_message_msg(Unwrap(wire).body), "recv_msg")
    /\ UNCHANGED <<sent, wire, query_calls, query_result>>
    /\ UNCHANGED not_service

proposal_forward_message ==
    /\ Incoming("proposal_forward_message")
    /\ serve(proposal_forward_message_msg(Unwrap(wire).body), "recv_msg")
    /\ UNCHANGED <<sent, wire, query_calls, query_result>>
    /\ UNCHANGED not_service

compaction_message ==
    /\ Incoming("compaction_message")
    /\ serve(compaction_message_msg(Unwrap(wire).body), "recv_msg")
    /\ UNCHANGED <<sent, wire, query_calls, query_result>>
    /\ UNCHANGED not_service

forward_compaction_message ==
    /\ Incoming("forward_compaction_message")
    /\ serve(forward_compaction_message_msg(Unwrap(wire).body), "recv_msg")
    /\ UNCHANGED <<sent, wire, query_calls, query_result>>
    /\ UNCHANGED not_service

accept_stop_sign_message ==
    /\ Incoming("accept_stop_sign_message")
    /\ serve(accept_stop_sign_message_msg(Unwrap(wire).body), "recv_msg")
    /\ UNCHANGED <<sent, wire, query_calls, query_result>>
    /\ UNCHANGED not_service

accepted_stop_sign_message ==
    /\ Incoming("accepted_stop_sign_message")
    /\ serve(accepted_stop_sign_message_msg(Unwrap(wire).body), "recv_msg")
    /\ UNCHANGED <<sent, wire, query_calls, query_result>>
    /\ UNCHANGED not_service

decide_stop_sign_message ==
    /\ Incoming("decide_stop_sign_message")
    /\ serve(decide_stop_sign_message_msg(Unwrap(wire).body), "recv_msg")
    /\ UNCHANGED <<sent, wire, query_calls, query_result>>
    /\ UNCHANGED not_service

heartbeat_request_message ==
    /\ Incoming("heartbeat_request_message")
    /\ serve(heartbeat_request_message_msg(Unwrap(wire).body), "recv_ble_msg")
    /\ UNCHANGED <<sent, wire, query_calls, query_result>>
    /\ UNCHANGED not_service

heartbeat_reply_message ==
    /\ Incoming("heartbeat_reply_message")
    /\ serve(heartbeat_reply_message_msg(Unwrap(wire).body), "recv_ble_msg")
    /\ UNCHANGED <<sent, wire, query_calls, query_result>>
    /\ UNCHANGED not_service

(***************************************************************************)
(* execute.                                                                *)
(***************************************************************************)
\* longest result of a sampled query
MaxRows == 2

\* the consistency field of a ProtoQuery is an i32
ConsistencyWire == {-1, 0, 1, 2, 2147483647}
ProtoQueries == [sql : {"SELECT k FROM t"}, consistency : ConsistencyWire]

\* rows the runtime may return, every column a string
QueryRows == {[values |-> <<"42">>], [values |-> <<"a", "NULL">>]}
QueryResultSamples == [rows : SeqsUpTo(QueryRows, MaxRows)]

\* errors the runtime may return, each with its Display text
StoreErrors == {[kind |-> "Sqlite", text |-> "no such table: t"],
                [kind |-> "NotLeader", text |-> "not leader"]}

\* format!("{}", e)
Display(e) == e.text

\* Status::internal(message)
Status_internal(message) == [status |-> "Internal", message |-> message]

\* the generated ProtoConsistency::from_i32
ProtoConsistency_from_i32(v) ==
    IF v = 0 THEN Some("ProtoConsistency::Strong")
    ELSE IF v = 1 THEN Some("ProtoConsistency::RelaxedReads")
    ELSE None

unwrap_or(o, default) == IF IsSome(o) THEN Unwrap(o) ELSE default

\* an unknown value taken for the relaxed level
execute_consistency_relaxed_default(query) ==
    LET consistency == unwrap_or(ProtoConsistency_from_i32(query.consistency),
                                 "ProtoConsistency::RelaxedReads")
    IN CASE consistency = "ProtoConsistency::Strong" -> "Consistency::Strong"
         [] consistency = "ProtoConsistency::RelaxedReads" ->
                "Consistency::RelaxedReads"

\* execute: the consistency level it passes to server.query
execute_consistency(query) ==
    LET consistency == unwrap_or(ProtoConsistency_from_i32(query.consistency),
                                 "ProtoConsistency::Strong")
    IN CASE consistency = "ProtoConsistency::Strong" -> "Consistency::Strong"
         [] consistency = "ProtoConsistency::RelaxedReads" ->
                "Consistency::RelaxedReads"

\* rows pushed last first
proto_rows_reversed(rows) ==
    [i \in 1..Len(rows) |-> [values |-> rows[Len(rows) + 1 - i].values]]

\* execute: the loop that pushes one ProtoQueryRow per row of the results
proto_rows(rows) ==
    [i \in 1..Len(rows) |-> [values |-> rows[i].values]]

\* an RPC client called execute
execute_rpc_arrives ==
    /\ svc_pc = "idle"
    /\ sent' = None
    /\ \E query \in ProtoQueries : wire' = Some(Request("execute", query))
    /\ svc_pc' = "inflight"
    /\ UNCHANGED <<inbox, core_did, reply, query_calls, query_result>>
    /\ UNCHANGED not_service

\* execute up to server.query(query.sql, consistency).await
execute_begin ==
    /\ Incoming("execute")
    /\ LET query == Unwrap(wire).body
       IN query_calls' = Append(query_calls,
              [sql |-> query.sql, consistency |-> execute_consistency(query)])
    /\ svc_pc' = "querying"
    /\ UNCHANGED <<sent, wire, inbox, core_did, reply, query_result>>
    /\ UNCHANGED not_service

\* server.query returned Ok(results): the rows are copied into the response
execute_query_ok ==
    /\ svc_pc = "querying"
    /\ \E results \in QueryResultSamples :
            /\ query_result' = Some([ok |-> TRUE, value |-> results])
            /\ reply' = Some([status |-> "Ok",
                              body |-> [rows |-> proto_rows(results.rows)]])
    /\ svc_pc' = "replied"
    /\ UNCHANGED <<sent, wire, inbox, core_did, query_calls>>
    /\ UNCHANGED not_service

\* server.query returned Err(e): Status::internal(format!("{}", e))
execute_query_err ==
    /\ svc_pc = "querying"
    /\ \E e \in StoreErrors :
            /\ query_result' = Some([ok |-> FALSE, error |-> e])
            /\ reply' = Some(Status_internal(Display(e)))
    /\ svc_pc' = "replied"
    /\ UNCHANGED <<sent, wire, inbox, core_did, query_calls>>
    /\ UNCHANGED not_service

ServiceNext ==
    \/ paxos_rpc_arrives
    \/ ble_rpc_arrives
    \/ foreign_rpc_arrives
    \/ execute_rpc_arrives
    \/ prepare_request
    \/ prepare_message
    \/ promise_message
    \/ accept_sync_message
    \/ first_accept_message
    \/ accept_decide_message
    \/ accepted_message
    \/ decide_message
    \/ proposal_forward_message
    \/ compaction_message
    \/ forward_compaction_message
    \/ accept_stop_sign_message
    \/ accepted_stop_sign_message
    \/ decide_stop_sign_message
    \/ heartbeat_request_message
    \/ heartbeat_reply_message
    \/ execute_begin
    \/ execute_query_ok
    \/ execute_query_err

(***************************************************************************)
(* The cluster around the RPC module: the Server Runtime that execute and  *)
(* the protocol handlers call into (server.query, server.recv_msg), its    *)
(* Client Notifier and decision pump, and the Consensus Core by the        *)
(* contract the runtime consumes.  None of it is part of rpc.rs; it is     *)
(* written down from the design of the store.  The consensus core decides  *)
(* one log; a node learns how far it is decided from Decide messages, and  *)
(* a proposal made on a follower travels to the leader as ProposalForward. *)
(* Messages in flight may be delivered in any order, delivered again, or   *)
(* lost.                                                                   *)
(***************************************************************************)
\* number of client queries the cluster accepts in a behaviour
MaxQueries == 2
\* length of the decided log
MaxLog == 2

ClusterNodes == {1, 2}

\* StoreCommand.id: the node id combined with the per-node counter
mint_id(n, counter) == n * (MaxQueries + 1) + counter

StoreCommand(id) == [id |-> id, sql |-> "INSERT INTO t VALUES(1)"]

\* the commands the nodes can mint
ClusterCommands ==
    {StoreCommand(mint_id(n, k)) : n \in ClusterNodes, k \in 0..(MaxQueries - 1)}

\* PaxosMsg::ProposalForward and PaxosMsg::Decide on their way to a node
ForwardMessages == [cmd : ClusterCommands]
DecideMessages == [to : ClusterNodes, ld : 1..MaxLog]

Max(a, b) == IF a >= b THEN a ELSE b

\* a read of the decided log that starts at the entry applied last
read_decided_suffix_from_last(since, upto) ==
    SubSeq(clog, Max(since, 1), upto)

\* read_decided_suffix(since), on a node whose decided index is upto
read_decided_suffix(since, upto) == SubSeq(clog, since + 1, upto)

\* complete(id, result) for each entry in turn: a registered notification is
\* fulfilled and removed, an id without one is a no-op
RECURSIVE complete_each(_, _)
complete_each(registered, entries) ==
    IF entries = <<>> THEN <<>>
    ELSE IF Head(entries).id \in registered
         THEN <<Head(entries).id>>
              \o complete_each(registered \ {Head(entries).id}, Tail(entries))
         ELSE complete_each(registered, Tail(entries))

ClusterInit ==
    /\ leader = 1
    /\ clog = <<>>
    /\ forwards = {}
    /\ decides = {}
    /\ decided_idx = [n \in ClusterNodes |-> 0]
    /\ last_applied = [n \in ClusterNodes |-> 0]
    /\ engine = [n \in ClusterNodes |-> <<>>]
    /\ notifier = [n \in ClusterNodes |-> {}]
    /\ completions = [n \in ClusterNodes |-> <<>>]
    /\ next_cmd = [n \in ClusterNodes |-> 0]

\* the consensus core decides a proposal: it takes the next index of the log,
\* the leader knows it decided and the Decide for that index goes out to the
\* other nodes
consensus_decide(cmd) ==
    /\ Len(clog) < MaxLog
    /\ clog' = Append(clog, cmd)
    /\ decided_idx' = [decided_idx EXCEPT ![leader] = Len(clog) + 1]
    /\ decides' = decides \cup
           {[to |-> n, ld |-> Len(clog) + 1] : n \in ClusterNodes \ {leader}}

\* query(sql, Strong): mint an id, register the notification, append the
\* command; on a follower the core forwards it to the leader
query(n) ==
    /\ next_cmd[1] + next_cmd[2] < MaxQueries
    /\ LET id == mint_id(n, next_cmd[n])
       IN /\ next_cmd' = [next_cmd EXCEPT ![n] = @ + 1]
          /\ notifier' = [notifier EXCEPT ![n] = @ \cup {id}]
          /\ IF n = leader
             THEN /\ consensus_decide(StoreCommand(id))
                  /\ forwards' = forwards
             ELSE /\ forwards' = forwards \cup {[cmd |-> StoreCommand(id)]}
                  /\ UNCHANGED <<clog, decides, decided_idx>>
    /\ UNCHANGED <<leader, last_applied, engine, completions>>
    /\ UNCHANGED not_cluster

\* recv_msg(ProposalForward) on the leader: it proposes the command.  (A node
\* that is not the leader passes the message on, so it reaches the leader of
\* the time.)  The message may stay in flight: sent again, or duplicated on
\* the way.
forward_delivered(m, again) ==
    /\ m \in forwards
    /\ consensus_decide(m.cmd)
    /\ forwards' = IF again THEN forwards ELSE forwards \ {m}
    /\ UNCHANGED <<leader, last_applied, engine, notifier, completions, next_cmd>>
    /\ UNCHANGED not_cluster

\* the send task of a ProposalForward failed: the message is gone
forward_lost(m) ==
    /\ m \in forwards
    /\ forwards' = forwards \ {m}
    /\ UNCHANGED <<leader, clog, decides, decided_idx, last_applied, engine,
                   notifier, completions, next_cmd>>
    /\ UNCHANGED not_cluster

\* the election names another leader
leader_change(n) ==
    /\ n # leader
    /\ leader' = n
    /\ UNCHANGED <<clog, forwards, decides, decided_idx, last_applied, engine,
                   notifier, completions, next_cmd>>
    /\ UNCHANGED not_cluster

\* recv_msg(Decide) on the node the message was sent to: the decided index
\* moves forward, never back.  A Decide to that node at or below its new index
\* can change nothing any more; the model keeps none of them in flight.
decide_delivered(m) ==
    /\ m \in decides
    /\ decided_idx' = [decided_idx EXCEPT ![m.to] = Max(@, m.ld)]
    /\ decides' = {d \in decides : d.to # m.to \/ d.ld > decided_idx'[m.to]}
    /\ UNCHANGED <<leader, clog, forwards, last_applied, engine, notifier,
                   completions, next_cmd>>
    /\ UNCHANGED not_cluster

\* the send task of a Decide failed: the message is gone
decide_lost(m) ==
    /\ m \in decides
    /\ decides' = decides \ {m}
    /\ UNCHANGED <<leader, clog, forwards, decided_idx, last_applied, engine,
                   notifier, completions, next_cmd>>
    /\ UNCHANGED not_cluster

\* the decision pump of node n: every entry decided since the last-applied
\* index is applied to the SQL engine, its notification (if one is
\* registered) is fulfilled, which hands the result to the waiting query, and
\* removed, and the last-applied index moves up
decision_pump(n) ==
    /\ last_applied[n] < decided_idx[n]
    /\ LET entries == read_decided_suffix(last_applied[n], decided_idx[n])
       IN /\ engine' = [engine EXCEPT ![n] = @ \o entries]
          /\ completions' = [completions EXCEPT ![n] =
                 @ \o complete_each(notifier[n], entries)]
          /\ notifier' = [notifier EXCEPT ![n] =
                 @ \ {entries[i].id : i \in 1..Len(entries)}]
    /\ last_applied' = [last_applied EXCEPT ![n] = decided_idx[n]]
    /\ UNCHANGED <<leader, clog, forwards, decides, decided_idx,
                   next_cmd>>
    /\ UNCHANGED not_cluster

ClusterNext ==
    \/ \E n \in ClusterNodes : query(n)
    \/ \E m \in ForwardMessages, again \in BOOLEAN : forward_delivered(m, again)
    \/ \E m \in ForwardMessages : forward_lost(m)
    \/ \E n \in ClusterNodes : leader_change(n)
    \/ \E m \in DecideMessages : decide_delivered(m)
    \/ \E m \in DecideMessages : decide_lost(m)
    \/ \E n \in ClusterNodes : decision_pump(n)

vars == <<transport_vars, pool_vars, service_vars, cluster_vars>>

Init == TransportInit /\ PoolInit /\ ServiceInit /\ ClusterInit

Next == TransportNext

Spec == Init /\ [][Next]_vars

\* number of send calls of one behaviour under fair scheduling
MaxLiveTasks == 2

LiveTasks == 1..MaxLiveTasks

\* the outbound transport with MaxLiveTasks send calls
LiveNext ==
    \/ \E t \in LiveTasks, to \in Nodes : send_paxos_message(t, to)
    \/ \E t \in LiveTasks, to \in Nodes : send_ble_message(t, to)
    \/ \E t \in LiveTasks : lock_acquire(t)
    \/ \E t \in LiveTasks : pool_lookup(t)
    \/ \E t \in LiveTasks : connect_ok(t)
    \/ \E t \in LiveTasks : connect_err(t)
    \/ \E t \in LiveTasks : rpc_ok(t)
    \/ \E t \in LiveTasks : rpc_err(t)

\* the scheduling of the send tasks: a task that can take a step takes it
\* (the runtime polls every ready task), and every connect and every RPC call
\* returns, with success or with failure
Fairness ==
    \A t \in LiveTasks :
        /\ WF_vars(lock_acquire(t))
        /\ WF_vars(pool_lookup(t))
        /\ WF_vars(connect_ok(t) \/ connect_err(t))
        /\ WF_vars(rpc_ok(t) \/ rpc_err(t))

SpecLive == Init /\ [][LiveNext]_vars /\ Fairness

SpecPool == Init /\ [][PoolNext]_vars

SpecService == Init /\ [][ServiceNext]_vars

SpecCluster == Init /\ [][ClusterNext]_vars

(***************************************************************************)
(* Claims about the outbound transport.                                    *)
(***************************************************************************)
Spawned == {t \in Tasks : pc[t] # "unspawned"}

\* every idle client of a pool was dialed to the pool's address, once
PoolsUsable ==
    \A a \in DOMAIN conns :
        /\ Len(conns[a]) <= PoolCapacity
        /\ \A i \in 1..Len(conns[a]) : conns[a][i].addr = a
        /\ \A i, j \in 1..Len(conns[a]) : conns[a][i] = conns[a][j] => i = j

\* C2: a connect failure or an RPC failure inside a send task is not reported
\* to the caller of the send function (every call has returned unit), and it
\* leaves the address map and the pools usable: the guard of the map is held
\* only by a live task that is looking up or dialing, never by a task that
\* failed, the failed task holds no Connection, and every pool holds only
\* clients of its own address within its capacity.
C2_FailureIsContained ==
    /\ \A t \in Tasks : pc[t] = "panicked" =>
           /\ conns_lock # t
           /\ client[t] = None
           /\ send_returned[t] = "unit"
    /\ conns_lock # NoTask => pc[conns_lock] \in {"locked", "dialing"}
    /\ \A i \in 1..Len(send_returned) : send_returned[i] = "unit"
    /\ PoolsUsable

\* a connect failure and an RPC failure happened, and a task that took the
\* lock after a failure to its own peer completed its RPC
C2_Witness ==
    /\ \E u \in Tasks : pc[u] = "panicked" /\ rpc_attempts[u] = 0
    /\ \E u \in Tasks : pc[u] = "panicked" /\ rpc_attempts[u] = 1
    /\ \E t \in Tasks : saw_panic[t] /\ pc[t] = "done"

\* C3: each send call makes at most one RPC attempt, from its background
\* task: the call has returned for every spawned task whatever the task is
\* waiting for, no task has attempted more than one RPC, none before it holds
\* a Connection, and a task that failed stays failed without a further attempt.
C3_AtMostOneAttempt ==
    /\ [](/\ Len(send_returned) = Cardinality(Spawned)
          /\ \A t \in Tasks :
                /\ rpc_attempts[t] <= 1
                /\ pc[t] \in {"unspawned", "lock_wait", "locked", "dialing",
                              "calling"} => rpc_attempts[t] = 0
                /\ pc[t] = "done" => rpc_attempts[t] = 1)
    /\ [][\A t \in Tasks : pc[t] = "panicked" =>
              /\ pc'[t] = "panicked"
              /\ rpc_attempts'[t] = rpc_attempts[t]]_vars

\* the caller got two returns while one task is still dialing and another has
\* failed its only RPC attempt
C3_Witness ==
    /\ Len(send_returned) >= 2
    /\ \E t \in Tasks : pc[t] = "dialing"
    /\ \E t \in Tasks : pc[t] = "panicked" /\ rpc_attempts[t] = 1

(***************************************************************************)
(* Claims about one pool.                                                  *)
(***************************************************************************)
\* C4: the pool never holds more than 16 idle clients, and a return made
\* while it holds 16 is discarded: the queue is left as it was, the return
\* itself completes (the guard is gone).
C4_PoolNeverExceedsCapacity ==
    /\ [](Len(pool_q) <= 16)
    /\ [][(pool_out' < pool_out /\ Len(pool_q) = 16) =>
              (pool_q' = pool_q /\ pool_last' = "discarded")]_vars

\* a return was discarded at a full pool
C4_Witness == pool_last = "discarded" /\ Len(pool_q) = 16

(***************************************************************************)
(* Claims about the conversions and the RpcService.                        *)
(***************************************************************************)
Served == svc_pc \in {"replied", "panicked"}
TheRequest == Unwrap(wire)
IsProtocolRequest == IsSome(wire) /\ TheRequest.rpc \in ProtocolRpcs
IsExecuteRequest == IsSome(wire) /\ TheRequest.rpc = "execute"

\* the methods whose request carries the ballot n
RpcsWithN == {"prepare_message", "promise_message", "accept_sync_message",
              "first_accept_message", "accept_decide_message",
              "accepted_message", "decide_message",
              "accept_stop_sign_message", "accepted_stop_sign_message",
              "decide_stop_sign_message"}

\* a request that misses a field its handler needs
MissingRequired(req) ==
    LET b == req.body
    IN \/ req.rpc \in RpcsWithN /\ b.n = None
       \/ req.rpc \in {"prepare_message", "promise_message"}
            /\ b.n_accepted = None
       \/ req.rpc = "accept_sync_message"
            /\ (b.sync_item = None \/ Unwrap(b.sync_item).syncitem = None)
       \/ req.rpc = "promise_message"
            /\ b.sync_item # None /\ Unwrap(b.sync_item).syncitem = None
       \/ req.rpc \in {"compaction_message", "forward_compaction_message"}
            /\ b.compaction = None
       \/ req.rpc = "accept_stop_sign_message" /\ b.stopsign = None
       \/ req.rpc = "heartbeat_reply_message" /\ b.ballot = None

\* C1: a message converted by send_paxos_message / send_ble_message and
\* converted back by the matching handler reaches the runtime equal to the
\* original: same variant, same from and to, every payload field equal.
C1_RoundTrip ==
    (IsSome(sent) /\ Served) =>
        /\ svc_pc = "replied"
        /\ Len(inbox) = 1
        /\ inbox[1].msg = Unwrap(sent)

\* C7: a protocol request that misses a required field is answered with an
\* internal-status RPC error and nothing is delivered to the runtime.
C7_MalformedAnsweredInternal ==
    (IsProtocolRequest /\ Served /\ MissingRequired(TheRequest)) =>
        /\ IsSome(reply)
        /\ Unwrap(reply).status = "Internal"
        /\ inbox = <<>>

\* C8: a well-formed protocol request delivers exactly one message to the
\* runtime, through recv_msg for a Paxos method and recv_ble_msg for a
\* heartbeat, and is answered Ok with the empty acknowledgement whatever the
\* core did with the message; nothing is delivered before the handler runs.
C8_WellFormedDeliveredOnce ==
    (IsProtocolRequest /\ ~MissingRequired(TheRequest)) =>
        /\ svc_pc = "inflight" => (inbox = <<>> /\ reply = None)
        /\ svc_pc # "inflight" =>
              /\ svc_pc = "replied"
              /\ Len(inbox) = 1
              /\ inbox[1].via = (IF TheRequest.rpc \in BleRpcs
                                 THEN "recv_ble_msg" ELSE "recv_msg")
              /\ core_did \in CoreOutcomes
              /\ reply = Some([status |-> "Ok", body |-> "ProtoVoid"])

\* a well-formed request was served and the core ignored its message
C8_Witness ==
    /\ IsProtocolRequest
    /\ ~MissingRequired(TheRequest)
    /\ svc_pc = "replied"
    /\ core_did = "ignored"
    /\ TheRequest.rpc = "heartbeat_reply_message"

\* the stop-sign of the served request and the one of the delivered message
WireStopSign == Unwrap(TheRequest.body.stopsign)
DeliveredStopSign ==
    IF TheRequest.rpc = "accept_stop_sign_message"
    THEN inbox[1].msg.msg.ss
    ELSE Unwrap(inbox[1].msg.msg.stopsign)
CarriesStopSign ==
    /\ IsSome(wire)
    /\ TheRequest.rpc \in {"promise_message", "accept_sync_message",
                           "accept_stop_sign_message"}
    /\ IsSome(TheRequest.body.stopsign)

\* C9: every metadata element v of a stop-sign decoded from the wire becomes
\* the byte v mod 256, in a metadata of the same length and order.
C9_MetadataLowEightBits ==
    (CarriesStopSign /\ svc_pc = "replied") =>
        /\ IsSome(DeliveredStopSign.metadata)
        /\ LET md == Unwrap(DeliveredStopSign.metadata)
               wmd == WireStopSign.metadata
           IN /\ Len(md) = Len(wmd)
              /\ \A i \in 1..Len(wmd) :
                    /\ md[i] \in 0..255
                    /\ \E q \in 0..(wmd[i] \div 256) : wmd[i] = 256 * q + md[i]

\* a stop-sign with two metadata elements above 255 was decoded
C9_Witness ==
    /\ CarriesStopSign
    /\ svc_pc = "replied"
    /\ WireStopSign.metadata = <<777, 256>>

\* the order of ballots: lexicographic on (n, priority, pid)
BallotLess(b1, b2) ==
    \/ b1.n < b2.n
    \/ b1.n = b2.n /\ b1.priority < b2.priority
    \/ b1.n = b2.n /\ b1.priority = b2.priority /\ b1.pid < b2.pid

SentPrepare == IsSome(sent) /\ Unwrap(sent).msg.type = "Prepare"

\* C10: the two ballots of a Prepare compare on the wire as they compare in
\* the message, and the handler decodes both back to the same ballots.
C10_BallotOrderPreserved ==
    SentPrepare =>
        LET m == Unwrap(sent).msg
            e1 == Unwrap(TheRequest.body.n)
            e2 == Unwrap(TheRequest.body.n_accepted)
        IN /\ BallotLess(e1, e2) <=> BallotLess(m.n, m.n_accepted)
           /\ BallotLess(e2, e1) <=> BallotLess(m.n_accepted, m.n)
           /\ Served =>
                 /\ svc_pc = "replied"
                 /\ inbox[1].msg.msg.n = m.n
                 /\ inbox[1].msg.msg.n_accepted = m.n_accepted

\* a Prepare whose first ballot is the smaller one, with the larger priority
\* and pid, was sent and decoded
C10_Witness ==
    /\ SentPrepare
    /\ svc_pc = "replied"
    /\ LET m == Unwrap(sent).msg
       IN /\ BallotLess(m.n, m.n_accepted)
          /\ m.n.priority > m.n_accepted.priority
          /\ m.n.pid > m.n_accepted.pid

\* the consistency level the claim gives each wire value
ClaimedConsistency(v) ==
    IF v = 0 THEN "Consistency::Strong"
    ELSE IF v = 1 THEN "Consistency::RelaxedReads"
    ELSE "Consistency::Strong"

\* C5: execute submits the query to the runtime with Strong for the wire
\* value 0, RelaxedReads for 1 and Strong for every other value.
C5_ConsistencyMapping ==
    (IsExecuteRequest /\ svc_pc # "inflight") =>
        /\ Len(query_calls) = 1
        /\ query_calls[1].sql = TheRequest.body.sql
        /\ query_calls[1].consistency =
               ClaimedConsistency(TheRequest.body.consistency)

\* a query with a consistency value that is neither 0 nor 1 was submitted
C5_Witness ==
    /\ IsExecuteRequest
    /\ svc_pc = "querying"
    /\ TheRequest.body.consistency = 2
    /\ query_calls[1].consistency = "Consistency::Strong"

\* C6: execute calls query once and answers only when it has returned: with
\* the same rows in the same order when it returned Ok, and with an internal
\* status carrying the error's text and no rows when it returned Err.
C6_ExecuteReply ==
    IsExecuteRequest =>
        /\ svc_pc # "panicked"
        /\ svc_pc = "inflight" => (query_calls = <<>> /\ reply = None)
        /\ svc_pc = "querying" =>
              (Len(query_calls) = 1 /\ reply = None /\ query_result = None)
        /\ svc_pc = "replied" =>
              /\ Len(query_calls) = 1
              /\ IsSome(query_result)
              /\ IsSome(reply)
              /\ LET r == Unwrap(query_result)
                     a == Unwrap(reply)
                 IN IF r.ok
                    THEN /\ a.status = "Ok"
                         /\ Len(a.body.rows) = Len(r.value.rows)
                         /\ \A i \in 1..Len(r.value.rows) :
                               a.body.rows[i].values = r.value.rows[i].values
                    ELSE /\ a.status = "Internal"
                         /\ a.message = r.error.text
                         /\ DOMAIN a = {"status", "message"}

\* a result of two different rows was returned to the client
C6_Witness ==
    /\ IsExecuteRequest
    /\ svc_pc = "replied"
    /\ Unwrap(query_result).ok
    /\ Len(Unwrap(query_result).value.rows) = 2
    /\ Unwrap(query_result).value.rows[1] # Unwrap(query_result).value.rows[2]

(***************************************************************************)
(* Claims about the cluster.                                               *)
(***************************************************************************)
Occurrences(seq, x) == Cardinality({i \in 1..Len(seq) : seq[i] = x})

Committed == {clog[i] : i \in 1..Len(clog)}

\* the node whose query minted the command
Submitter(c) ==
    CHOOSE n \in ClusterNodes :
        \E k \in 0..(MaxQueries - 1) : c.id = mint_id(n, k)

\* C11: every committed command is applied to the SQL engine of a node
\* exactly once (never twice, and once when the node has applied the log up
\* to it), and the notification of its id is completed exactly once on the
\* node that submitted it, which hands its client one result; also when
\* the messages carrying the command are duplicated, lost or sent again and
\* when the leader changes.
C11_AppliedExactlyOnce ==
    \A n \in ClusterNodes, c \in Committed :
        /\ Occurrences(engine[n], c) <= 1
        /\ Occurrences(SubSeq(clog, 1, last_applied[n]), c) > 0
              => Occurrences(engine[n], c) = 1
        /\ Occurrences(completions[n], c.id) <= 1
        /\ (n = Submitter(c) /\ Occurrences(engine[n], c) > 0)
              => Occurrences(completions[n], c.id) = 1

Idle(a) == {conns[a][i] : i \in 1..Len(conns[a])}

\* the position in released of the last drop that returned client c
LastRelease(c) ==
    CHOOSE i \in 1..Len(released) :
        /\ released[i].conn = c
        /\ \A j \in 1..Len(released) : released[j].conn = c => j <= i

\* the idle client of the pool of a that has been idle longest
OldestIdle(a) ==
    CHOOSE c \in Idle(a) :
        \A d \in Idle(a) : LastRelease(c) <= LastRelease(d)

\* the step of task t that leaves the lookup of its pool
Borrows(t) == pc[t] = "locked" /\ pc'[t] # "locked"

BorrowTakesOldestOrDials ==
    \A t \in Tasks :
        Borrows(t) =>
            /\ DOMAIN conns' = DOMAIN conns \cup {peer[t]}
            /\ dialed' = dialed
            /\ IF peer[t] \in DOMAIN conns /\ Len(conns[peer[t]]) > 0
               THEN /\ pc'[t] = "calling"
                    /\ client'[t] = Some([conn |-> OldestIdle(peer[t]),
                                          pool |-> peer[t]])
                    /\ Idle(peer[t])' = Idle(peer[t]) \ {OldestIdle(peer[t])}
               ELSE /\ pc'[t] = "dialing"
                    /\ client'[t] = None

DialedOnlyByEmptyBorrow ==
    /\ dialed' # dialed =>
           \E t \in Tasks :
               /\ pc[t] = "dialing"
               /\ pc'[t] = "calling"
               /\ dialed' = dialed + 1
               /\ Unwrap(client'[t]).conn.addr = peer[t]
    /\ DOMAIN conns' # DOMAIN conns => \E t \in Tasks : Borrows(t)

\* C13: the transport starts with no pool and no connection dialed; a borrow
\* (the step that leaves the lookup) takes the client that has been idle
\* longest in the pool of its address and dials nothing when that pool holds
\* one, and starts a dial only when the pool is empty or new; a connection is
\* dialed only by a task that found its pool empty, and a pool is created
\* only by a borrow for its address.
C13_LazyFifo ==
    /\ (DOMAIN conns = {} /\ dialed = 0)
    /\ [][BorrowTakesOldestOrDials /\ DialedOnlyByEmptyBorrow]_vars

\* a task holds the client that was returned first while the client that was
\* returned second is still idle in the same pool
C13_Witness ==
    /\ Len(released) = 2
    /\ released[1].conn # released[2].conn
    /\ \E t \in Tasks :
           /\ client[t] = Some([conn |-> released[1].conn, pool |-> peer[t]])
           /\ conns[peer[t]] = <<released[2].conn>>

\* C14: the guard of the address map is held only by a task that is looking
\* up or inserting its pool, never by a task that is dialing, so a task that
\* waits for the lock while a task to another peer is dialing can take it.
C14_LockShortLived ==
    /\ conns_lock # NoTask => pc[conns_lock] = "locked"
    /\ \A t \in Tasks : pc[t] = "dialing" => conns_lock # t
    /\ \A t, u \in Tasks :
           (pc[t] = "dialing" /\ pc[u] = "lock_wait" /\ peer[u] # peer[t])
               => ENABLED lock_acquire(u)

\* the drops of the Connection of task t so far
ReleasesOf(t) == {i \in 1..Len(released) : released[i].task = t}

\* a task that borrowed a Connection and ended
EndedWithConnection(t) ==
    \/ pc[t] = "done"
    \/ pc[t] = "panicked" /\ rpc_attempts[t] = 1

\* C15: the Connection a send task borrowed is dropped exactly once, when the
\* task ends with its RPC succeeded or failed and not before; the drop offers
\* the client to the pool of node_addr(to), the address it was dialed to,
\* where it is idle until it is borrowed again; the pools are keyed by the
\* address, so two tasks whose nodes resolve to one address use one pool.
C15_ReleasedOnceToOwnPool ==
    /\ \A t \in Tasks :
           /\ EndedWithConnection(t) =>
                  (Cardinality(ReleasesOf(t)) = 1 /\ client[t] = None)
           /\ ~EndedWithConnection(t) => ReleasesOf(t) = {}
           /\ IsSome(client[t]) =>
                  /\ Unwrap(client[t]).pool = node_addr(sent_to[t])
                  /\ Unwrap(client[t]).conn.addr = node_addr(sent_to[t])
    /\ \A i \in 1..Len(released) :
           /\ released[i].pool = node_addr(sent_to[released[i].task])
           /\ released[i].conn.addr = released[i].pool
           /\ \/ released[i].conn \in Idle(released[i].pool)
              \/ \E u \in Tasks :
                     client[u] = Some([conn |-> released[i].conn,
                                       pool |-> released[i].pool])
           /\ \A a \in DOMAIN conns :
                  a # released[i].pool => released[i].conn \notin Idle(a)
    /\ DOMAIN conns \subseteq {node_addr(n) : n \in Nodes}

\* a task to node 2 failed its RPC and its Connection went back to the pool;
\* a task to node 3, which resolves to the same address, holds that client
C15_Witness ==
    \E t, u \in Tasks :
        /\ sent_to[t] = 2
        /\ sent_to[u] = 3
        /\ pc[t] = "panicked"
        /\ rpc_attempts[t] = 1
        /\ Len(released) >= 1
        /\ released[1].task = t
        /\ client[u] = Some([conn |-> released[1].conn, pool |-> "addr_b"])

\* C16: the capacity bounds the idle clients only: a borrow never waits for a
\* return, it pops when a client is idle and dials when none is, however many
\* guards are out, so the guards out of one pool are not held to 16.
C16_CapacityBoundsOnlyIdle ==
    /\ Len(pool_q) <= PoolCapacity
    /\ pool_out < MaxBorrowed =>
           /\ Len(pool_q) = 0 => ENABLED pool_dial
           /\ Len(pool_q) > 0 => ENABLED pool_pop

\* more guards than the capacity are out of the pool, the last one dialed
\* while the pool was empty
C16_Witness ==
    /\ pool_out > PoolCapacity
    /\ pool_last = "dialed"
    /\ Len(pool_q) = 0

\* C17: nothing orders the RPCs of two sends to the same node: each send has
\* its own task, a later task that waits for the lock can take it when it is
\* free whatever the earlier one does, and a later task that holds its
\* connection can complete its RPC while the earlier one has not.
C17_NoFifoPerPeer ==
    \A t, u \in Tasks :
        (t < u /\ sent_to[t] = sent_to[u]
               /\ pc[t] \in {"lock_wait", "locked", "dialing", "calling"}) =>
            /\ (pc[u] = "lock_wait" /\ conns_lock = NoTask)
                  => ENABLED lock_acquire(u)
            /\ pc[u] = "calling" => ENABLED rpc_ok(u)

\* the RPC of the second send to a node was delivered before the RPC of the
\* first send to that node
C17_Witness ==
    /\ sent_to[1] = sent_to[2]
    /\ sent_to[1] # 0
    /\ Len(delivered) >= 2
    /\ delivered[1] = 2
    /\ delivered[2] = 1

\* C18: when every connect and every RPC call returns, a task that waits for
\* the map lock acquires it and every spawned task ends, with its RPC
\* delivered or with a failure; a task that returns its connection needs
\* neither the lock nor room in the pool.
C18_NoDeadlockOnPool ==
    /\ \A t \in Tasks : (pc[t] = "lock_wait") ~> (pc[t] = "locked")
    /\ \A t \in Tasks :
           (pc[t] # "unspawned") ~> (pc[t] \in {"done", "panicked"})
    /\ [](\A t \in Tasks :
             (pc[t] = "calling" /\ conns_lock # NoTask) => ENABLED rpc_ok(t))

\* two tasks were spawned and both ended, one after a failed connect which the
\* other found when it took the lock; the lock is free again
C18_Witness ==
    /\ Cardinality(Spawned) >= 2
    /\ \A t \in Spawned : pc[t] \in {"done", "panicked"}
    /\ \E t \in Tasks : pc[t] = "panicked" /\ rpc_attempts[t] = 0
    /\ \E t \in Tasks : saw_panic[t]
    /\ Len(released) >= 1
    /\ conns_lock = NoTask

=============================================================================
